---- MODULE Spec2Model ----
(***************************************************************************)
(* A model of the AI-todo server: the SQLite task table (database.ts),     *)
(* and the express route handlers over it (index.ts).  Every handler runs  *)
(* synchronously to completion (better-sqlite3 is synchronous), so each    *)
(* handler is one atomic action.                                           *)
(*                                                                         *)
(* JavaScript / JSON values and SQLite values are tagged tuples, so that   *)
(* undefined, null, strings and numbers stay distinct and the conversions  *)
(* between the request body, the bound parameters, the stored columns and  *)
(* the returned row are modelled by what they do.                          *)
(***************************************************************************)
EXTENDS Integers, Sequences, FiniteSets, TLC

(* ---------- bounds of the model ---------- *)
\* the number of rows ever inserted (the largest id the store assigns)
MaxId == 2
\* the last instant of the clock, in ticks
MaxClock == 2
\* ticks per second: CURRENT_TIMESTAMP has second resolution, Date has finer
TicksPerSec == 2
\* the number of writing requests (POST, PUT, PATCH, DELETE) served
MaxOps == 3

(* ---------- values ---------- *)
Undefined == <<"undefined">>
Null == <<"null">>
Str(s) == <<"string", s>>
Num(n) == <<"number", n>>
Time(t) == <<"time", t>>

IsStr(v) == v[1] = "string"
IsNum(v) == v[1] = "number"

\* (a variant of Truthy that only rejects undefined)
TruthyDefined(v) == v # Undefined

\* JavaScript truthiness of a JSON scalar
Truthy(v) == \/ IsStr(v) /\ v[2] # ""
             \/ IsNum(v) /\ v[2] # 0

\* a || b
OrElse(a, b) == IF Truthy(a) THEN a ELSE b

\* (a variant of Default that never applies the default)
DefaultNever(v, d) == v

\* a destructuring default applies to undefined only
Default(v, d) == IF v = Undefined THEN d ELSE v

\* better-sqlite3 binds undefined and null as NULL, the rest as they are
Bind(v) == IF v = Undefined THEN Null ELSE v

Digits == <<"0", "1", "2", "3", "4", "5", "6", "7", "8", "9">>

RECURSIVE NumText(_)
NumText(n) == IF n < 10 THEN Digits[n + 1]
              ELSE NumText(n \div 10) \o Digits[(n % 10) + 1]

\* a TEXT column stores a number as its decimal text
TextAffinity(v) == IF IsNum(v) THEN Str(NumText(v[2])) ELSE v

\* an INTEGER column stores a text that is a decimal integer as the integer
IntegerAffinity(v) ==
    IF IsStr(v) /\ \E n \in 0..9 : NumText(n) = v[2]
    THEN Num(CHOOSE n \in 0..9 : NumText(n) = v[2])
    ELSE v

(* ---------- state ---------- *)
VARIABLES
    tasks,   \* the tasks table: id -> row
    seq,     \* sqlite_sequence of tasks: the largest id ever assigned
    now,     \* the clock, in ticks
    req,     \* the request the last handler served
    res,     \* the response it sent
    ops,     \* the number of writing requests served so far
    insights,    \* the ai_insights table, in order of insertion
    calls,       \* the number of requests sent to the chat-completion API
    groqApiKey,  \* AIService.groqApiKey
    local,       \* App: the tasks state of the component
    pending,     \* App: the handlers that wait for their fetch
    loading,     \* App: the loading state of the component
    history      \* App: whether a drag has happened, whether a request has failed

vars == <<tasks, seq, now, req, res, ops, insights, calls, groqApiKey,
          local, pending, loading, history>>

\* the state of the browser
uiVars == <<local, pending, loading, history>>

\* the state of the insight generator
aiVars == <<insights, calls, groqApiKey>>

\* the ids requests name; an id not yet assigned or deleted names no row
Ids == 1..MaxId

\* (a variant of CurrentTimestamp that rounds up to the next second)
CurrentTimestampCeil ==
    Time(((now + TicksPerSec - 1) \div TicksPerSec) * TicksPerSec)

\* CURRENT_TIMESTAMP: the clock truncated to the second
CurrentTimestamp == Time((now \div TicksPerSec) * TicksPerSec)

\* new Date().toISOString()
IsoNow == Time(now)

NoReq == [op |-> "none"]
NoRes == [code |-> 0]

NoRows == [i \in {} |-> Null]

Init ==
    /\ tasks = NoRows
    /\ seq = 0
    /\ now = 0
    /\ req = NoReq
    /\ res = NoRes
    /\ ops = 0
    /\ insights = << >>
    /\ calls = 0
    /\ groqApiKey = ""
    /\ local = << >>
    /\ pending = << >>
    /\ loading = TRUE
    /\ history = {}

\* the server serves one request at a time: no handler is running
Idle == req = NoReq

(* ---------- database.ts: the prepared statements ---------- *)

\* SELECT * FROM tasks WHERE id = ?  (the row exists)
HasRow(t, id) == id \in DOMAIN t

\* INSERT INTO tasks (title, description, status, priority, position):
\* the NOT NULL columns reject a NULL
InsertAccepts(title, status, position) ==
    /\ Bind(title) # Null
    /\ Bind(status) # Null
    /\ Bind(position) # Null

\* (a variant of InsertedRow whose INSERT leaves position to the column default)
InsertedRowDefaultPosition(id, title, description, status, priority, position, stamp) ==
    [ id           |-> id,
      title        |-> TextAffinity(Bind(title)),
      description  |-> TextAffinity(Bind(description)),
      status       |-> TextAffinity(Bind(status)),
      priority     |-> TextAffinity(Bind(priority)),
      created_at   |-> stamp,
      completed_at |-> Null,
      position     |-> Num(0) ]

\* the row the INSERT stores under the next AUTOINCREMENT id
InsertedRow(id, title, description, status, priority, position, stamp) ==
    [ id           |-> id,
      title        |-> TextAffinity(Bind(title)),
      description  |-> TextAffinity(Bind(description)),
      status       |-> TextAffinity(Bind(status)),
      priority     |-> TextAffinity(Bind(priority)),
      created_at   |-> stamp,
      completed_at |-> Null,
      position     |-> IntegerAffinity(Bind(position)) ]

\* (a variant of NextRowId without AUTOINCREMENT: one more than the largest id
\* in the table)
NextRowIdOfTable(t, s) ==
    IF DOMAIN t = {} THEN 1
    ELSE 1 + CHOOSE m \in DOMAIN t : \A i \in DOMAIN t : i <= m

\* AUTOINCREMENT: one more than the largest id ever assigned
NextRowId(t, s) == s + 1

WithRow(t, row) ==
    [i \in DOMAIN t \cup {row.id} |-> IF i = row.id THEN row ELSE t[i]]

WithoutRow(t, id) == [i \in DOMAIN t \ {id} |-> t[i]]

\* UPDATE tasks SET title, description, status, priority, completed_at WHERE id
UpdateAccepts(title, status) ==
    /\ Bind(title) # Null
    /\ Bind(status) # Null

\* (a variant of UpdatedRow that keeps completed_at only while the status is done)
UpdatedRowClearing(row, title, description, status, priority, completed_at) ==
    [row EXCEPT !.title = TextAffinity(Bind(title)),
                !.description = TextAffinity(Bind(description)),
                !.status = TextAffinity(Bind(status)),
                !.priority = TextAffinity(Bind(priority)),
                !.completed_at = IF status = Str("done") THEN Bind(completed_at)
                                 ELSE Null]

UpdatedRow(row, title, description, status, priority, completed_at) ==
    [row EXCEPT !.title = TextAffinity(Bind(title)),
                !.description = TextAffinity(Bind(description)),
                !.status = TextAffinity(Bind(status)),
                !.priority = TextAffinity(Bind(priority)),
                !.completed_at = Bind(completed_at)]

(* ---------- index.ts: the task routes ---------- *)

\* POST /api/tasks
CreateTask(body) ==
    LET title == body.title
        description == body.description
        status == Default(body.status, Str("todo"))
        priority == Default(body.priority, Str("medium"))
        position == Default(body.position, Num(0))
        id == NextRowId(tasks, seq)
        row == InsertedRow(id, title, description, status, priority, position,
                           CurrentTimestamp)
    IN  /\ Idle
        /\ ops < MaxOps
        /\ seq < MaxId
        /\ ops' = ops + 1
        /\ req' = [op |-> "create", body |-> body]
        /\ IF ~Truthy(title)
           THEN /\ res' = [code |-> 400]
                /\ UNCHANGED <<tasks, seq>>
           ELSE IF ~InsertAccepts(title, status, position)
           THEN /\ res' = [code |-> 500]
                /\ UNCHANGED <<tasks, seq>>
           ELSE /\ tasks' = WithRow(tasks, row)
                /\ seq' = id
                /\ res' = [code |-> 201, body |-> row]
        /\ UNCHANGED <<now, aiVars>>

\* (a variant of Supplied that binds the request's value whether supplied or not)
SuppliedOrNot(v, old) == v

\* description !== undefined ? description : existingTask.description
Supplied(v, old) == IF v # Undefined THEN v ELSE old

\* PUT /api/tasks/:id
UpdateTask(id, body) ==
    /\ Idle
    /\ ops < MaxOps
    /\ ops' = ops + 1
    /\ req' = [op |-> "update", id |-> id, body |-> body]
    /\ IF ~HasRow(tasks, id)
       THEN /\ res' = [code |-> 404]
            /\ UNCHANGED tasks
       ELSE LET existingTask == tasks[id]
                completed_at ==
                    IF body.status = Str("done") /\ existingTask.status # Str("done")
                    THEN IsoNow
                    ELSE existingTask.completed_at
                title == OrElse(body.title, existingTask.title)
                description == Supplied(body.description, existingTask.description)
                status == OrElse(body.status, existingTask.status)
                priority == OrElse(body.priority, existingTask.priority)
                row == UpdatedRow(existingTask, title, description, status,
                                  priority, completed_at)
            IN  IF ~UpdateAccepts(title, status)
                THEN /\ res' = [code |-> 500]
                     /\ UNCHANGED tasks
                ELSE /\ tasks' = WithRow(tasks, row)
                     /\ res' = [code |-> 200, body |-> row]
    /\ UNCHANGED <<seq, now, aiVars>>

\* (a variant of UpdatePosition whose UPDATE has no WHERE clause)
UpdatePositionEverywhere(t, position, id) ==
    [i \in DOMAIN t |-> [t[i] EXCEPT !.position = IntegerAffinity(Bind(position))]]

\* UPDATE tasks SET position = ? WHERE id = ?
UpdatePosition(t, position, id) ==
    [t EXCEPT ![id].position = IntegerAffinity(Bind(position))]

\* (a variant of RunBatch that runs the batch in one transaction: a statement
\* that throws undoes the writes of the pairs before it)
RECURSIVE RunBatchInTransaction(_, _)
RunBatchInTransaction(t, batch) ==
    IF batch = << >> THEN [rows |-> t, threw |-> FALSE]
    ELSE LET pair == Head(batch)
         IN  IF ~HasRow(t, pair.id) THEN RunBatchInTransaction(t, Tail(batch))
             ELSE IF Bind(pair.position) = Null THEN [rows |-> t, threw |-> TRUE]
             ELSE LET rest == RunBatchInTransaction(
                                  [t EXCEPT ![pair.id].position =
                                      IntegerAffinity(Bind(pair.position))],
                                  Tail(batch))
                  IN  IF rest.threw THEN [rows |-> t, threw |-> TRUE] ELSE rest

\* tasks.forEach(({ id, position }) => updatePosition.run(position, id)):
\* each statement commits on its own; a NULL position on a row that exists
\* violates NOT NULL and throws, which ends the loop
RECURSIVE RunBatch(_, _)
RunBatch(t, batch) ==
    IF batch = << >> THEN [rows |-> t, threw |-> FALSE]
    ELSE LET pair == Head(batch)
         IN  IF ~HasRow(t, pair.id) THEN RunBatch(t, Tail(batch))
             ELSE IF Bind(pair.position) = Null THEN [rows |-> t, threw |-> TRUE]
             ELSE RunBatch(UpdatePosition(t, pair.position, pair.id), Tail(batch))

Arr(s) == <<"array", s>>
IsArray(v) == v[1] = "array"

\* PATCH /api/tasks/reorder
ReorderTasks(body) ==
    /\ Idle
    /\ ops < MaxOps
    /\ ops' = ops + 1
    /\ req' = [op |-> "reorder", body |-> body]
    /\ IF ~IsArray(body.tasks)
       THEN /\ res' = [code |-> 400]
            /\ UNCHANGED tasks
       ELSE LET run == RunBatch(tasks, body.tasks[2])
            IN  /\ tasks' = run.rows
                /\ res' = [code |-> IF run.threw THEN 500 ELSE 200]
    /\ UNCHANGED <<seq, now, aiVars>>

\* DELETE /api/tasks/:id
DeleteTask(id) ==
    /\ Idle
    /\ ops < MaxOps
    /\ ops' = ops + 1
    /\ req' = [op |-> "delete", id |-> id]
    /\ IF ~HasRow(tasks, id)
       THEN /\ res' = [code |-> 404]
            /\ UNCHANGED tasks
       ELSE /\ tasks' = WithoutRow(tasks, id)
            /\ res' = [code |-> 200]
    /\ UNCHANGED <<seq, now, aiVars>>

\* (a variant of GetResponse without the check for a missing row)
GetResponseUnchecked(t, id) ==
    [code |-> 200, body |-> IF HasRow(t, id) THEN t[id] ELSE Null]

\* the answer of GET /api/tasks/:id on the table t
GetResponse(t, id) ==
    IF HasRow(t, id) THEN [code |-> 200, body |-> t[id]] ELSE [code |-> 404]

\* GET /api/tasks/:id
GetTask(id) ==
    /\ Idle
    /\ req' = [op |-> "get", id |-> id]
    /\ res' = GetResponse(tasks, id)
    /\ UNCHANGED <<tasks, seq, now, ops, aiVars>>

\* the order of SQLite values of one storage class; NULL sorts first, then
\* numbers, then text
SqlClass(v) == IF v = Null THEN 0 ELSE IF IsNum(v) THEN 1 ELSE 2

SqlLess(a, b) ==
    \/ SqlClass(a) < SqlClass(b)
    \/ /\ SqlClass(a) = SqlClass(b)
       /\ a[1] \in {"number", "time"}
       /\ a[1] = b[1]
       /\ a[2] < b[2]

\* (a variant of OrderedBefore for ORDER BY position ASC, created_at ASC)
OrderedBeforeOldestFirst(a, b) ==
    \/ SqlLess(a.position, b.position)
    \/ /\ ~SqlLess(b.position, a.position)
       /\ SqlLess(a.created_at, b.created_at)

\* ORDER BY position ASC, created_at DESC: row a may not come after row b
OrderedBefore(a, b) ==
    \/ SqlLess(a.position, b.position)
    \/ /\ ~SqlLess(b.position, a.position)
       /\ SqlLess(b.created_at, a.created_at)

Rows(t) == {t[i] : i \in DOMAIN t}

Listings(S) ==
    {s \in [1..Cardinality(S) -> S] : \A i, j \in DOMAIN s : i # j => s[i] # s[j]}

\* SELECT * FROM tasks ORDER BY position ASC, created_at DESC: every order of
\* the rows that the ORDER BY allows (rows equal in both keys come in any order)
GetAll(t) ==
    {s \in Listings(Rows(t)) :
        \A i, j \in DOMAIN s : i < j => ~OrderedBefore(s[j], s[i])}

\* GET /api/tasks
ListTasks ==
    /\ Idle
    /\ req' = [op |-> "list"]
    /\ \E s \in GetAll(tasks) : res' = [code |-> 200, body |-> s]
    /\ UNCHANGED <<tasks, seq, now, ops, aiVars>>

\* time passes between requests
Tick ==
    /\ Idle
    /\ now < MaxClock
    /\ now' = now + 1
    /\ UNCHANGED <<tasks, seq, req, res, ops, aiVars>>

(* ---------- the requests the model sends ---------- *)
NoTask == [title |-> Undefined, description |-> Undefined, status |-> Undefined,
           priority |-> Undefined, position |-> Undefined]

NoBody == NoTask

\* bodies of PUT (a Partial<Task>): no field, one field, or the four fields the
\* handler reads supplied
UpdateBodies ==
    {NoBody,
     [NoBody EXCEPT !.position = Num(2)],
     [title |-> Str("b"), description |-> Str("d"), status |-> Str("done"),
      priority |-> Str("low"), position |-> Undefined]}
    \cup {[NoBody EXCEPT !.title = v] : v \in {Str(""), Str("b")}}
    \cup {[NoBody EXCEPT !.description = v] : v \in {Null, Str("d")}}
    \cup {[NoBody EXCEPT !.status = v] :
            v \in {Str("todo"), Str("in-progress"), Str("done")}}
    \cup {[NoBody EXCEPT !.priority = v] : v \in {Str("low"), Str("high")}}

\* bodies of POST: no title, an empty title, a title that is a number, a status
\* and a priority outside the Task type, and a title with no other field, one
\* other field, or every field supplied
CreateBodies ==
    {NoTask,
     [NoTask EXCEPT !.title = Str("")],
     [NoTask EXCEPT !.title = Num(7)],
     [title |-> Str("a"), description |-> Str("d"), status |-> Str("in-progress"),
      priority |-> Str("high"), position |-> Num(1)]}
    \cup {[b EXCEPT !.title = Str("a")] : b \in
            {NoTask, [NoTask EXCEPT !.description = Str("d")],
             [NoTask EXCEPT !.priority = Str("high")]}
            \cup {[NoTask EXCEPT !.status = v] : v \in {Str("in-progress"), Str("done")}}
            \cup {[NoTask EXCEPT !.position = v] : v \in {Num(1), Null}}}

Pairs == [id : Ids, position : {Num(0), Num(2), Null}]

Batches == {<< >>} \cup {<<p>> : p \in Pairs} \cup {<<p, q>> : p \in Pairs, q \in Pairs}

ReorderBodies ==
    {[tasks |-> Undefined]} \cup {[tasks |-> Arr(b)] : b \in Batches}

\* the response is sent and the handler returns
Close ==
    /\ req # NoReq
    /\ req' = NoReq
    /\ res' = NoRes
    /\ UNCHANGED <<tasks, seq, now, ops, aiVars>>

Next ==
    \/ Idle /\ \E body \in CreateBodies : CreateTask(body) /\ UNCHANGED uiVars
    \/ Idle /\ \E id \in Ids, body \in UpdateBodies : UpdateTask(id, body) /\ UNCHANGED uiVars
    \/ Idle /\ \E body \in ReorderBodies : ReorderTasks(body) /\ UNCHANGED uiVars
    \/ Idle /\ \E id \in Ids : DeleteTask(id) /\ UNCHANGED uiVars
    \/ Idle /\ \E id \in Ids : GetTask(id) /\ UNCHANGED uiVars
    \/ ListTasks /\ UNCHANGED uiVars
    \/ Close /\ UNCHANGED uiVars
    \/ Tick /\ UNCHANGED uiVars

Spec == Init /\ [][Next]_vars

(* ---------- properties of POST /api/tasks ---------- *)

Created == req.op = "create" /\ res.code = 201

\* C1: a create request with a non-empty title whose status and position are
\* not null is answered 201, and the task it returns is stored under the id the
\* store assigned, with status todo, priority medium and position 0 for each of
\* these the request omitted.
CreateAppliesDefaults ==
    (req.op = "create" /\ Truthy(req.body.title)) =>
        /\ (req.body.status # Null /\ req.body.position # Null) => res.code = 201
        /\ res.code = 201 =>
            /\ res.body.id \in 1..seq
            /\ HasRow(tasks, res.body.id)
            /\ tasks[res.body.id] = res.body
            /\ req.body.status = Undefined => res.body.status = Str("todo")
            /\ req.body.priority = Undefined => res.body.priority = Str("medium")
            /\ req.body.position = Undefined => res.body.position = Num(0)

CreateAppliesDefaultsWitness ==
    /\ Created
    /\ req.body.status = Undefined
    /\ req.body.priority = Undefined
    /\ req.body.position = Undefined
    /\ res.body.status = Str("todo")

\* C2: a create request whose title is empty or missing is answered 400 and
\* leaves the table as it was: no row is inserted and no id is consumed.
CreateWithoutTitleRejected ==
    [][(Idle /\ req'.op = "create" /\ req'.body.title \in {Undefined, Null, Str("")}) =>
            /\ res'.code = 400
            /\ tasks' = tasks
            /\ seq' = seq]_vars

CreateWithoutTitleRejectedWitness ==
    /\ req.op = "create"
    /\ req.body.title = Str("")
    /\ res.code = 400
    /\ DOMAIN tasks # {}

\* the create inputs the Task type allows
ValidCreate(body) ==
    /\ IsStr(body.title) /\ body.title # Str("")
    /\ body.description = Undefined \/ IsStr(body.description)
    /\ body.status \in {Undefined, Str("todo"), Str("in-progress"), Str("done")}
    /\ body.priority \in {Undefined, Str("low"), Str("medium"), Str("high")}
    /\ body.position = Undefined \/ IsNum(body.position)

TaskFields == {"title", "description", "status", "priority", "position"}

\* C3: right after a create with a valid input, a get by the returned id
\* answers 200 with a task equal to the input in every field the caller supplied.
CreateGetRoundTrip ==
    (Created /\ ValidCreate(req.body)) =>
        LET got == GetResponse(tasks, res.body.id)
        IN  /\ got.code = 200
            /\ \A f \in TaskFields :
                   req.body[f] # Undefined => got.body[f] = req.body[f]

CreateGetRoundTripWitness ==
    /\ Created
    /\ \A f \in TaskFields : req.body[f] # Undefined
    /\ GetResponse(tasks, res.body.id).body.position = Num(1)

(* ---------- properties of PUT /api/tasks/:id ---------- *)

Updated == req.op = "update" /\ res.code = 200

Done == Str("done")

\* C4: an update that sets status to done on a task that is not done sets
\* completed_at to a timestamp at or after the task's created_at; an update
\* to done on a task that is already done leaves completed_at as it was.
DoneStampsCompletedAt ==
    [][(Idle /\ req'.op = "update" /\ res'.code = 200 /\ req'.body.status = Done) =>
            LET old == tasks[req'.id]
                new == tasks'[req'.id]
            IN  IF old.status # Done
                THEN /\ new.completed_at[1] = "time"
                     /\ new.completed_at[2] >= old.created_at[2]
                ELSE new.completed_at = old.completed_at]_vars

\* a second update to done, one tick after the first, kept the first stamp
DoneStampsCompletedAtWitness ==
    /\ Updated
    /\ req.body.status = Done
    /\ res.body.created_at = Time(0)
    /\ res.body.completed_at = Time(1)
    /\ now = 2

\* the update is a transition of the task from a status other than done to done
IntoDone(body, old) == body.status = Done /\ old.status # Done

\* C5: an update that is not a transition into done carries completed_at over
\* as stored, and no step clears a completed_at that is set, whatever the
\* task's status becomes.
CompletedAtNeverCleared ==
    [][/\ (Idle /\ req'.op = "update" /\ res'.code = 200
             /\ ~IntoDone(req'.body, tasks[req'.id])) =>
                tasks'[req'.id].completed_at = tasks[req'.id].completed_at
       /\ \A i \in DOMAIN tasks \cap DOMAIN tasks' :
             tasks[i].completed_at # Null => tasks'[i].completed_at # Null]_vars

\* a task moved from done back to todo still has its completed_at
CompletedAtNeverClearedWitness ==
    /\ Updated
    /\ req.body.status = Str("todo")
    /\ res.body.status = Str("todo")
    /\ res.body.completed_at # Null

UpdateFields == {"title", "description", "status", "priority"}

\* C6: an update of an existing task keeps every field the request does not
\* supply, keeps id, created_at and position, changes completed_at only on a
\* transition into done, and leaves every other task and the set of tasks as
\* they were.
UpdateChangesOnlySupplied ==
    [][(Idle /\ req'.op = "update" /\ res'.code = 200) =>
            LET old == tasks[req'.id]
                new == tasks'[req'.id]
            IN  /\ DOMAIN tasks' = DOMAIN tasks
                /\ \A f \in UpdateFields : req'.body[f] = Undefined => new[f] = old[f]
                /\ new.id = old.id
                /\ new.created_at = old.created_at
                /\ new.position = old.position
                /\ new.completed_at # old.completed_at => IntoDone(req'.body, old)
                /\ \A i \in DOMAIN tasks \ {req'.id} : tasks'[i] = tasks[i]
                /\ seq' = seq]_vars

\* only the title was supplied; the description, priority and position the
\* task was created with are still there, and another task exists
UpdateChangesOnlySuppliedWitness ==
    /\ Updated
    /\ req.body = [NoBody EXCEPT !.title = Str("b")]
    /\ res.body.title = Str("b")
    /\ res.body.description = Str("d")
    /\ res.body.position = Num(1)
    /\ Cardinality(DOMAIN tasks) = 2

(* ---------- properties of missing and deleted tasks ---------- *)

\* C7: get, update and delete of an id that names no row are answered 404 and
\* leave the table as it was.
UnknownIdNotFound ==
    [][(Idle /\ req'.op \in {"get", "update", "delete"} /\ req'.id \notin DOMAIN tasks) =>
            /\ res'.code = 404
            /\ tasks' = tasks
            /\ seq' = seq]_vars

UnknownIdNotFoundWitness ==
    /\ req.op = "delete"
    /\ res.code = 404
    /\ req.id \notin DOMAIN tasks
    /\ DOMAIN tasks # {}

\* C8: delete of an existing id is answered 200 and removes that row and no
\* other; from then on the id names no row: get and delete of it are answered
\* 404 and no listing contains it.
DeleteRemovesTask ==
    [][/\ (Idle /\ req'.op = "delete" /\ req'.id \in DOMAIN tasks) =>
            /\ res'.code = 200
            /\ tasks' = [i \in DOMAIN tasks \ {req'.id} |-> tasks[i]]
       /\ \A i \in 1..seq : i \notin DOMAIN tasks =>
            /\ i \notin DOMAIN tasks'
            /\ (Idle /\ req'.op \in {"get", "delete"} /\ req'.id = i) => res'.code = 404
            /\ (Idle /\ req'.op = "list") =>
                   \A k \in DOMAIN res'.body : res'.body[k].id # i]_vars

\* a get of a deleted id, while another task is still stored
DeleteRemovesTaskWitness ==
    /\ req.op = "get"
    /\ req.id \in 1..seq
    /\ req.id \notin DOMAIN tasks
    /\ res.code = 404
    /\ DOMAIN tasks # {}

(* ---------- properties of PATCH /api/tasks/reorder and GET /api/tasks ---------- *)

\* the position of the last pair of the batch that names id
LastSubmitted(batch, id) ==
    LET last == CHOOSE k \in DOMAIN batch :
                    /\ batch[k].id = id
                    /\ \A l \in DOMAIN batch : batch[l].id = id => l <= k
    IN  batch[last].position

\* C9: after a reorder that is answered with success, every stored task the
\* batch names has the position submitted for it (the last one, when the batch
\* names it more than once), every other task has the position it had, no
\* other field of any task has changed, and a pair whose id names no row has
\* created none.
ReorderSetsSubmittedPositions ==
    [][(Idle /\ req'.op = "reorder" /\ res'.code = 200) =>
            LET batch == req'.body.tasks[2]
                named == {batch[k].id : k \in DOMAIN batch}
            IN  /\ DOMAIN tasks' = DOMAIN tasks
                /\ seq' = seq
                /\ \A i \in DOMAIN tasks :
                      /\ i \in named => tasks'[i].position = LastSubmitted(batch, i)
                      /\ i \notin named => tasks'[i].position = tasks[i].position
                      /\ [tasks'[i] EXCEPT !.position = tasks[i].position] = tasks[i]]_vars

\* task 2 was moved to position 2 and task 1, not in the batch, kept position 1
ReorderSetsSubmittedPositionsWitness ==
    /\ req.op = "reorder"
    /\ res.code = 200
    /\ req.body.tasks = Arr(<<[id |-> 2, position |-> Num(2)]>>)
    /\ DOMAIN tasks = {1, 2}
    /\ tasks[2].position = Num(2)
    /\ tasks[1].position = Num(1)

\* C10: a listing holds every stored task exactly once, in ascending order of
\* position, tasks of equal position in descending order of created_at; so a
\* task that a reorder gave a smaller position is listed first.
ListSortedByPosition ==
    req.op = "list" =>
        LET s == res.body
        IN  /\ res.code = 200
            /\ Len(s) = Cardinality(DOMAIN tasks)
            /\ \A i \in DOMAIN tasks : \E k \in DOMAIN s : s[k] = tasks[i]
            /\ \A k, l \in DOMAIN s : k < l =>
                  \/ s[k].position[2] < s[l].position[2]
                  \/ /\ s[k].position = s[l].position
                     /\ s[k].created_at[2] >= s[l].created_at[2]

\* task 1 was created first and reordered to position 2, task 2 to position 0:
\* task 2 is listed before task 1
ListSortedByPositionWitness ==
    /\ req.op = "list"
    /\ Len(res.body) = 2
    /\ res.body[1].id = 2 /\ res.body[1].position = Num(0)
    /\ res.body[2].id = 1 /\ res.body[2].position = Num(2)

\* the pair at index k makes its UPDATE throw: it names a stored row and binds
\* NULL to the NOT NULL column position
Throws(t, batch, k) ==
    /\ batch[k].id \in DOMAIN t
    /\ batch[k].position \in {Null, Undefined}

\* C11: when the statement of the k-th pair of a reorder batch throws, the
\* request is answered 500, the positions written by pairs 1..k-1 stay
\* written (nothing is rolled back), and pairs k..n write nothing.
ReorderErrorKeepsEarlierWrites ==
    [][(Idle /\ req'.op = "reorder" /\ IsArray(req'.body.tasks)) =>
            LET batch == req'.body.tasks[2]
            IN  \A k \in DOMAIN batch :
                    (Throws(tasks, batch, k) /\ \A j \in 1..(k - 1) : ~Throws(tasks, batch, j)) =>
                        LET before == SubSeq(batch, 1, k - 1)
                            named == {before[j].id : j \in DOMAIN before}
                        IN  /\ res'.code = 500
                            /\ DOMAIN tasks' = DOMAIN tasks
                            /\ \A i \in DOMAIN tasks :
                                  /\ i \in named =>
                                        tasks'[i].position = LastSubmitted(before, i)
                                  /\ i \notin named =>
                                        tasks'[i].position = tasks[i].position
                                  /\ [tasks'[i] EXCEPT !.position = tasks[i].position]
                                        = tasks[i]]_vars

\* the first pair moved task 1 to position 2, the second pair threw
ReorderErrorKeepsEarlierWritesWitness ==
    /\ req.op = "reorder"
    /\ res.code = 500
    /\ req.body.tasks = Arr(<<[id |-> 1, position |-> Num(2)], [id |-> 1, position |-> Null]>>)
    /\ tasks[1].position = Num(2)
    /\ ops = 2

(* ---------- properties of the stored tasks ---------- *)

TaskStatuses == {Str("todo"), Str("in-progress"), Str("done")}
TaskPriorities == {Str("low"), Str("medium"), Str("high")}

\* C12: every stored task has a status among todo, in-progress and done and a
\* priority among low, medium and high.
StatusAndPriorityInRange ==
    \A i \in DOMAIN tasks :
        /\ tasks[i].status \in TaskStatuses
        /\ tasks[i].priority \in TaskPriorities

\* C28: every stored task whose status is done has a completed_at.
DoneTasksAreStamped ==
    \A i \in DOMAIN tasks :
        tasks[i].status = Str("done") => tasks[i].completed_at # Null

(* ---------- database.ts and index.ts: analytics ---------- *)

\* ticks per calendar day (the clock of the model is scaled down: a day of two
\* seconds)
TicksPerDay == 2 * TicksPerSec
\* date('now', '-7 days')
WeekDays == 7
\* the last calendar day the clock reaches
MaxDays == 8

Day(d) == <<"date", d>>
Real(n, d) == <<"real", n, d>>

\* date(created_at)
DateOf(stamp) == Day(stamp[2] \div TicksPerDay)

\* date('now') and new Date().toISOString().split('T')[0]
Today == Day(now \div TicksPerDay)

\* date(?): NULL when the text is no date
SqlDate(v) == IF v[1] = "date" THEN v ELSE Null

\* the row of one date group: COUNT(*), SUM(status = 'done'),
\* CAST(SUM(...) AS REAL) / COUNT(*) * 100
StatsRow(t, date) ==
    LET group == {r \in Rows(t) : DateOf(r.created_at) = date}
        completed == Cardinality({r \in group : r.status = Str("done")})
    IN  [ date            |-> date,
          total_tasks     |-> Cardinality(group),
          completed_tasks |-> completed,
          completion_rate |-> Real(completed * 100, Cardinality(group)) ]

\* (a variant of GetDailyStats whose WHERE keeps every date from the given one on)
GetDailyStatsSince(t, date) ==
    LET dates == {DateOf(r.created_at) : r \in Rows(t)}
        kept == {d \in dates : SqlDate(date) # Null /\ d[2] >= SqlDate(date)[2]}
    IN  IF kept = {} THEN << >>
        ELSE <<[StatsRow(t, CHOOSE d \in kept : \A e \in kept : d[2] <= e[2])
                   EXCEPT !.total_tasks =
                       Cardinality({r \in Rows(t) : DateOf(r.created_at) \in kept})]>>

\* analyticsQueries.getDailyStats: the rows of the query, none or one
GetDailyStats(t, date) ==
    LET dates == {DateOf(r.created_at) : r \in Rows(t)}
        kept == {d \in dates : d = SqlDate(date)}
    IN  IF kept = {} THEN << >> ELSE <<StatsRow(t, CHOOSE d \in kept : TRUE)>>

RECURSIVE NewestFirst(_)
\* ORDER BY date DESC
NewestFirst(dates) ==
    IF dates = {} THEN << >>
    ELSE LET newest == CHOOSE d \in dates : \A e \in dates : e[2] <= d[2]
         IN  <<newest>> \o NewestFirst(dates \ {newest})

\* (a variant of GetWeeklyStats without the WHERE clause)
GetWeeklyStatsEver(t) ==
    LET dates == {DateOf(r.created_at) : r \in Rows(t)}
        order == NewestFirst(dates)
    IN  [k \in DOMAIN order |-> StatsRow(t, order[k])]

\* analyticsQueries.getWeeklyStats
GetWeeklyStats(t) ==
    LET dates == {DateOf(r.created_at) : r \in Rows(t)}
        kept == {d \in dates : d[2] >= Today[2] - WeekDays}
        order == NewestFirst(kept)
    IN  [k \in DOMAIN order |-> StatsRow(t, order[k])]

\* GET /api/analytics/daily
DailyStats(query) ==
    LET date == IF query \in {Undefined, Str("")} THEN Today ELSE query
        stats == GetDailyStats(tasks, date)
    IN  /\ Idle
        /\ req' = [op |-> "daily", date |-> query]
        /\ res' = [code |-> 200,
                   body |-> IF stats = << >>
                            THEN [date |-> date, total_tasks |-> 0,
                                  completed_tasks |-> 0, completion_rate |-> Num(0)]
                            ELSE stats[1]]
        /\ UNCHANGED <<tasks, seq, now, ops, aiVars>>

\* GET /api/analytics/weekly
WeeklyStats ==
    /\ Idle
    /\ req' = [op |-> "weekly"]
    /\ res' = [code |-> 200, body |-> GetWeeklyStats(tasks)]
    /\ UNCHANGED <<tasks, seq, now, ops, aiVars>>

\* a day passes between requests
NextDay ==
    /\ Idle
    /\ now \div TicksPerDay < MaxDays
    /\ now' = now + TicksPerDay
    /\ UNCHANGED <<tasks, seq, req, res, ops, aiVars>>

StatsCreateBodies ==
    {[NoTask EXCEPT !.title = Str("a")],
     [NoTask EXCEPT !.title = Str("a"), !.status = Str("done")],
     [NoTask EXCEPT !.title = Str("a"), !.status = Str("archived"),
                    !.priority = Str("urgent")]}

StatsUpdateBodies ==
    {[NoBody EXCEPT !.status = Str("done")], [NoBody EXCEPT !.status = Str("todo")]}

\* the dates a client asks for: none, an empty text, a text that is no date, a
\* calendar date
StatsQueries == {Undefined, Str(""), Str("soon")} \cup {Day(d) : d \in 0..(MaxDays + 1)}

NextStats ==
    \/ Idle /\ \E body \in StatsCreateBodies : CreateTask(body) /\ UNCHANGED uiVars
    \/ Idle /\ \E id \in Ids, body \in StatsUpdateBodies : UpdateTask(id, body) /\ UNCHANGED uiVars
    \/ Idle /\ \E id \in Ids : DeleteTask(id) /\ UNCHANGED uiVars
    \/ Idle /\ \E query \in StatsQueries : DailyStats(query) /\ UNCHANGED uiVars
    \/ WeeklyStats /\ UNCHANGED uiVars
    \/ Close /\ UNCHANGED uiVars
    \/ NextDay /\ UNCHANGED uiVars

SpecStats == Init /\ [][NextStats]_vars

(* ---------- ai-service.ts: the heuristic ---------- *)

\* a template string and the values put into it
Line(template, args) == <<"string", template, args>>

\* (n / d).toFixed(0), for n, d >= 0
ToFixed0(n, d) == (2 * n + d) \div (2 * d)

\* (n / d).toFixed(1), in tenths
ToFixed1(n, d) == (20 * n + d) \div (2 * d)

\* the indices of the tasks of a list that are done, are not, are of a priority
CompletedTasks(list) == {k \in DOMAIN list : list[k].status = Str("done")}
\* (a variant of IncompleteTasks that goes by completed_at)
IncompleteTasksUnstamped(list) == {k \in DOMAIN list : list[k].completed_at = Null}

IncompleteTasks(list) == {k \in DOMAIN list : list[k].status # Str("done")}
OfPriority(list, S, p) == Cardinality({k \in S : list[k].priority = Str(p)})

\* (a variant of MostCommon where of equal counts the last of high, medium, low
\* wins)
MostCommonLastWins(list) ==
    LET entries == <<"high", "medium", "low">>
        count(k) == OfPriority(list, DOMAIN list, entries[k])
        last == CHOOSE k \in DOMAIN entries :
                    /\ \A j \in DOMAIN entries : count(j) <= count(k)
                    /\ \A j \in (k + 1)..Len(entries) : count(j) < count(k)
    IN  <<entries[last], count(last)>>

\* Object.entries(priorityDist).sort((a, b) => b[1] - a[1])[0]: the sort is
\* stable, so of equal counts the first of high, medium, low wins
MostCommon(list) ==
    LET entries == <<"high", "medium", "low">>
        count(k) == OfPriority(list, DOMAIN list, entries[k])
        first == CHOOSE k \in DOMAIN entries :
                     /\ \A j \in DOMAIN entries : count(j) <= count(k)
                     /\ \A j \in 1..(k - 1) : count(j) < count(k)
    IN  <<entries[first], count(first)>>

\* the result of analyzeTasks on an empty list
Placeholders ==
    [ patterns           |-> Arr(<<Line("No tasks to analyze yet", << >>)>>),
      completionInsights |-> Arr(<<Line("Start adding tasks to get insights", << >>)>>),
      failureReasons     |-> Arr(<< >>),
      recommendations    |->
          Arr(<<Line("Create your first task to begin tracking your productivity", << >>)>>) ]

\* completionRate, after parseInt where it is compared
CompletionRate(list) ==
    IF Len(list) > 0
    THEN ToFixed0(Cardinality(CompletedTasks(list)) * 100, Len(list))
    ELSE 0

If(c, line) == IF c THEN <<line>> ELSE << >>

\* basicAnalysis: patterns
Patterns(list) ==
    IF Len(list) > 0
    THEN <<Line("You create an average of % tasks per week", <<ToFixed1(Len(list), 7)>>),
           Line("Most tasks are % priority (% tasks)", MostCommon(list))>>
    ELSE << >>

\* (a variant of CompletionInsights that always gives the rate line)
CompletionInsightsWithRate(list) ==
    LET highPriorityCompleted == OfPriority(list, CompletedTasks(list), "high")
    IN  <<Line("You have a %% completion rate", <<CompletionRate(list)>>)>>
        \o If(highPriorityCompleted > 0,
              Line("You've completed % high-priority tasks", <<highPriorityCompleted>>))

\* basicAnalysis: completionInsights
CompletionInsights(list) ==
    LET highPriorityCompleted == OfPriority(list, CompletedTasks(list), "high")
    IN  IF Cardinality(CompletedTasks(list)) > 0
        THEN <<Line("You have a %% completion rate", <<CompletionRate(list)>>)>>
             \o If(highPriorityCompleted > 0,
                   Line("You've completed % high-priority tasks", <<highPriorityCompleted>>))
        ELSE <<Line("No tasks completed yet - start checking items off your list!", << >>)>>

\* (a variant of FailureReasons that compares with >= )
FailureReasonsOnTie(list) ==
    LET completed == Cardinality(CompletedTasks(list))
        incomplete == Cardinality(IncompleteTasks(list))
        highPriorityIncomplete == OfPriority(list, IncompleteTasks(list), "high")
    IN  IF incomplete > 0
        THEN If(highPriorityIncomplete > 0,
                Line("% high-priority tasks are still pending", <<highPriorityIncomplete>>))
             \o If(incomplete >= completed,
                   Line("More incomplete tasks than completed - consider breaking down large tasks",
                        << >>))
        ELSE << >>

\* basicAnalysis: failureReasons
FailureReasons(list) ==
    LET completed == Cardinality(CompletedTasks(list))
        incomplete == Cardinality(IncompleteTasks(list))
        highPriorityIncomplete == OfPriority(list, IncompleteTasks(list), "high")
    IN  IF incomplete > 0
        THEN If(highPriorityIncomplete > 0,
                Line("% high-priority tasks are still pending", <<highPriorityIncomplete>>))
             \o If(incomplete > completed,
                   Line("More incomplete tasks than completed - consider breaking down large tasks",
                        << >>))
        ELSE << >>

\* (a variant of Recommendations whose encouragement does not depend on the
\* archive advice)
RecommendationsEncouraging(list) ==
    LET incomplete == Cardinality(IncompleteTasks(list))
        highPriorityIncomplete == OfPriority(list, IncompleteTasks(list), "high")
    IN  If(CompletionRate(list) < 50 /\ Len(list) > 3,
           Line("Focus on completing existing tasks before adding new ones", << >>))
        \o If(highPriorityIncomplete > 0,
              Line("Prioritize high-priority tasks first for better productivity", << >>))
        \o If(incomplete > 10,
              Line("Consider archiving or deleting tasks that are no longer relevant", << >>))
        \o <<Line("Great job managing your task list! Keep up the momentum", << >>)>>

\* basicAnalysis: recommendations
Recommendations(list) ==
    LET incomplete == Cardinality(IncompleteTasks(list))
        highPriorityIncomplete == OfPriority(list, IncompleteTasks(list), "high")
    IN  If(CompletionRate(list) < 50 /\ Len(list) > 3,
           Line("Focus on completing existing tasks before adding new ones", << >>))
        \o If(highPriorityIncomplete > 0,
              Line("Prioritize high-priority tasks first for better productivity", << >>))
        \o (IF incomplete > 10
            THEN <<Line("Consider archiving or deleting tasks that are no longer relevant",
                        << >>)>>
            ELSE <<Line("Great job managing your task list! Keep up the momentum", << >>)>>)

\* AIService.basicAnalysis
BasicAnalysis(list) ==
    [ patterns           |-> Arr(Patterns(list)),
      completionInsights |-> Arr(CompletionInsights(list)),
      failureReasons     |-> Arr(FailureReasons(list)),
      recommendations    |-> Arr(Recommendations(list)) ]

(* ---------- ai-service.ts: the chat-completion reply ---------- *)

\* the pieces of a reply's text: prose without braces, a lone brace, the text
\* of a well-formed JSON object
Prose == <<"prose">>
Open == <<"{">>
Shut == <<"}">>
Obj(o) == <<"object", o>>
Text(pieces) == <<"text", pieces>>

\* the object that the text {} denotes
NoFields == [patterns |-> Undefined, completionInsights |-> Undefined,
             failureReasons |-> Undefined, recommendations |-> Undefined]

\* content.match(/\{[\s\S]*\}/): from the first { to the last } after it
Match(pieces) ==
    LET opens == {k \in DOMAIN pieces : pieces[k] = Open \/ pieces[k][1] = "object"}
        shuts == {k \in DOMAIN pieces : pieces[k] = Shut \/ pieces[k][1] = "object"}
        first == CHOOSE k \in opens : \A j \in opens : k <= j
        last == CHOOSE k \in shuts : \A j \in shuts : j <= k
    IN  IF opens # {} /\ shuts # {} /\ first <= last
        THEN [found |-> TRUE, text |-> SubSeq(pieces, first, last)]
        ELSE [found |-> FALSE, text |-> << >>]

\* JSON.parse of a text that starts with { and ends with }
JsonParse(pieces) ==
    IF Len(pieces) = 1 /\ pieces[1][1] = "object"
    THEN [threw |-> FALSE, value |-> pieces[1][2]]
    ELSE IF pieces = <<Open, Shut>>
    THEN [threw |-> FALSE, value |-> NoFields]
    ELSE [threw |-> TRUE, value |-> NoFields]

\* the replies to fetch: it rejects, it resolves with a status that is not ok,
\* it resolves with a body that is no JSON, or with a JSON body
Rejected == [kind |-> "rejected", choices |-> Undefined]
NotOk == [kind |-> "not-ok", choices |-> Undefined]
NoJson == [kind |-> "no-json", choices |-> Undefined]
Ok(choices) == [kind |-> "ok", choices |-> choices]

\* the body of the try block of analyzeTasks, for a non-empty list: what it
\* returns or that it threw, and whether it sent the request
TryBody(list, key, reply) ==
    LET basic == [threw |-> FALSE, value |-> BasicAnalysis(list)]
        thrown == [threw |-> TRUE, value |-> NoFields]
        first == IF reply.choices[2] = << >> THEN Undefined ELSE reply.choices[2][1]
        content == IF first = Undefined \/ first[2] = << >> THEN << >> ELSE first[2]
        jsonMatch == Match(content)
        outcome ==
            IF reply.kind \in {"rejected", "no-json"} THEN thrown
            ELSE IF reply.kind = "not-ok" THEN basic
            ELSE IF ~IsArray(reply.choices) THEN thrown
            ELSE IF jsonMatch.found THEN JsonParse(jsonMatch.text)
            ELSE basic
    IN  IF key = ""
        THEN [threw |-> FALSE, value |-> BasicAnalysis(list), called |-> FALSE]
        ELSE [threw |-> outcome.threw, value |-> outcome.value, called |-> TRUE]

\* (a variant of Catch that lets the error through)
CatchNothing(attempt, fallback) == attempt

\* catch (error) { return this.basicAnalysis(...) }
Catch(attempt, fallback) ==
    IF attempt.threw THEN [attempt EXCEPT !.threw = FALSE, !.value = fallback] ELSE attempt

\* (a variant of AnalyzeTasks without the case of the empty list)
AnalyzeTasksAlike(list, key, reply) ==
    Catch(TryBody(list, key, reply), BasicAnalysis(list))

\* AIService.analyzeTasks
AnalyzeTasks(list, key, reply) ==
    IF Len(list) = 0
    THEN [threw |-> FALSE, value |-> Placeholders, called |-> FALSE]
    ELSE Catch(TryBody(list, key, reply), BasicAnalysis(list))

(* ---------- ai-service.ts and index.ts: the insights ---------- *)

\* LIMIT 10
RecentLimit == 10

\* 0.8, in tenths
DefaultConfidence == Num(8)

NoInsight == [insight_type |-> Undefined, content |-> Undefined,
              related_tasks |-> Undefined, confidence_score |-> Undefined]

\* insight_type and content are NOT NULL
InsightAccepts(insight) ==
    /\ Bind(insight.insight_type) # Null
    /\ Bind(insight.content) # Null

\* the row that saveInsight inserts
InsightRow(id, stamp, insight) ==
    [ id               |-> id,
      created_at       |-> stamp,
      insight_type     |-> TextAffinity(Bind(insight.insight_type)),
      content          |-> TextAffinity(Bind(insight.content)),
      related_tasks    |-> OrElse(insight.related_tasks, Null),
      confidence_score |-> OrElse(insight.confidence_score, DefaultConfidence) ]

\* AIService.saveInsight, called on its own
SaveInsight(insight) ==
    /\ Idle
    /\ ops < MaxOps
    /\ ops' = ops + 1
    /\ req' = [op |-> "save", insight |-> insight]
    /\ IF InsightAccepts(insight)
       THEN /\ insights' = Append(insights,
                               InsightRow(Len(insights) + 1, CurrentTimestamp, insight))
            /\ res' = [code |-> 0, threw |-> FALSE]
       ELSE /\ res' = [code |-> 0, threw |-> TRUE]
            /\ UNCHANGED insights
    /\ UNCHANGED <<tasks, seq, now, calls, groqApiKey>>

\* analyticsQueries.getAllTasks: ORDER BY created_at DESC, rows of one second in
\* any order
GetAllTasks(t) ==
    {s \in Listings(Rows(t)) :
        \A i, j \in DOMAIN s : i < j => ~SqlLess(s[i].created_at, s[j].created_at)}

\* the insights that one for-of loop of the route saves, or that it throws
\* because the field is not iterable
LoopOver(field, type, related) ==
    IF IsArray(field)
    THEN [k \in DOMAIN field[2] |->
             [NoInsight EXCEPT !.insight_type = Str(type), !.content = field[2][k],
                               !.related_tasks = related]]
    ELSE <<[NoInsight EXCEPT !.insight_type = Str("TypeError")]>>

\* (a variant of Loops that saves no failure reason)
LoopsButFailures(analysis, list) ==
    LoopOver(analysis.patterns, "pattern",
             Line("JSON.stringify", [k \in DOMAIN list |-> list[k].id]))
    \o LoopOver(analysis.completionInsights, "completion", Undefined)
    \o LoopOver(analysis.recommendations, "recommendation", Undefined)

\* the four loops of the route, one after the other
Loops(analysis, list) ==
    LoopOver(analysis.patterns, "pattern",
             Line("JSON.stringify", [k \in DOMAIN list |-> list[k].id]))
    \o LoopOver(analysis.completionInsights, "completion", Undefined)
    \o LoopOver(analysis.failureReasons, "failure", Undefined)
    \o LoopOver(analysis.recommendations, "recommendation", Undefined)

RECURSIVE SaveAll(_, _, _)
\* the saves of the loops up to the first one that throws
SaveAll(rows, todo, stamp) ==
    IF todo = << >> THEN [rows |-> rows, threw |-> FALSE]
    ELSE IF Head(todo).insight_type = Str("TypeError") \/ ~InsightAccepts(Head(todo))
    THEN [rows |-> rows, threw |-> TRUE]
    ELSE SaveAll(Append(rows, InsightRow(Len(rows) + 1, stamp, Head(todo))),
                 Tail(todo), stamp)

\* GET /api/ai/analyze
Analyze(reply) ==
    /\ Idle
    /\ ops < MaxOps
    /\ ops' = ops + 1
    /\ \E list \in GetAllTasks(tasks) :
          LET analysis == AnalyzeTasks(list, groqApiKey, reply)
              saved == IF analysis.threw
                       THEN [rows |-> insights, threw |-> TRUE]
                       ELSE SaveAll(insights, Loops(analysis.value, list), CurrentTimestamp)
          IN  /\ req' = [op |-> "analyze", reply |-> reply, list |-> list]
              /\ calls' = calls + (IF analysis.called THEN 1 ELSE 0)
              /\ insights' = saved.rows
              /\ res' = IF saved.threw
                        THEN [code |-> 500, body |-> [error |-> "Failed to analyze tasks"]]
                        ELSE [code |-> 200, body |-> analysis.value]
    /\ UNCHANGED <<tasks, seq, now, groqApiKey>>

RECURSIVE Sorted(_, _)
\* the rows of a set from the newest created_at to the oldest; rows of one
\* second by ascending id (up = TRUE) or by descending id
Sorted(S, up) ==
    IF S = {} THEN << >>
    ELSE LET next == CHOOSE r \in S : \A q \in S :
                         \/ q.created_at[2] < r.created_at[2]
                         \/ /\ q.created_at[2] = r.created_at[2]
                            /\ IF up THEN r.id <= q.id ELSE q.id <= r.id
         IN  <<next>> \o Sorted(S \ {next}, up)

FirstRows(s, n) == SubSeq(s, 1, IF Len(s) < n THEN Len(s) ELSE n)

\* (a variant of GetRecent for ORDER BY created_at ASC)
GetRecentOldestFirst(rows) ==
    LET S == {rows[k] : k \in DOMAIN rows}
        newest == Sorted(S, TRUE)
    IN  {FirstRows([k \in DOMAIN newest |-> newest[Len(newest) + 1 - k]], RecentLimit)}

\* insightsQueries.getAll: ORDER BY created_at DESC LIMIT 10; the rows of one
\* second come by descending id when the index on created_at is read backwards
\* and by ascending id when the rows are sorted
GetRecent(rows) ==
    LET S == {rows[k] : k \in DOMAIN rows}
    IN  {FirstRows(Sorted(S, up), RecentLimit) : up \in BOOLEAN}

\* GET /api/ai/insights
GetRecentInsights ==
    /\ Idle
    /\ req' = [op |-> "insights"]
    /\ \E s \in GetRecent(insights) : res' = [code |-> 200, body |-> s]
    /\ UNCHANGED <<tasks, seq, now, ops, aiVars>>

\* process.env.GROQ_API_KEY: not set, set
ApiKeys == {"", "gsk"}

AICreateBodies ==
    {[NoTask EXCEPT !.title = Str("a"), !.status = st, !.priority = pr] :
        st \in {Undefined, Str("done")}, pr \in {Undefined, Str("high")}}

\* results a reply can spell out: a full one, one with an empty list, one
\* without three of the fields, one with null for a string
Spelled ==
    LET full == [ patterns           |-> Arr(<<Line("p", << >>)>>),
                  completionInsights |-> Arr(<<Line("c", << >>)>>),
                  failureReasons     |-> Arr(<<Line("f", << >>)>>),
                  recommendations    |-> Arr(<<Line("r", << >>)>>) ]
    IN  {full,
         [full EXCEPT !.failureReasons = Arr(<< >>)],
         [NoFields EXCEPT !.patterns = Arr(<<Line("p", << >>)>>)],
         [full EXCEPT !.completionInsights = Arr(<<Null>>)]}

Replies ==
    {Rejected, NotOk, NoJson, Ok(Undefined), Ok(Arr(<< >>)), Ok(Arr(<<Undefined>>))}
    \cup {Ok(Arr(<<Text(pieces)>>)) :
            pieces \in {<< >>, <<Prose>>, <<Prose, Shut, Open>>, <<Open, Prose, Shut>>,
                        <<Prose, Open, Shut>>}}
    \cup {Ok(Arr(<<Text(<<Prose, Obj(o), Prose>>)>>)) : o \in Spelled}
    \cup {Ok(Arr(<<Text(<<Obj(NoFields), Prose, Obj(NoFields)>>)>>))}

SavedInsights ==
    {[NoInsight EXCEPT !.insight_type = Str("pattern"), !.content = Line("x", << >>),
                       !.confidence_score = c] :
        c \in {Undefined, Num(0), Num(5), Num(10)}}

InitAI ==
    /\ tasks = NoRows
    /\ seq = 0
    /\ now = 0
    /\ req = NoReq
    /\ res = NoRes
    /\ ops = 0
    /\ insights = << >>
    /\ calls = 0
    /\ groqApiKey \in ApiKeys
    /\ local = << >>
    /\ pending = << >>
    /\ loading = TRUE
    /\ history = {}

NextAI ==
    \/ Idle /\ \E body \in AICreateBodies : CreateTask(body) /\ UNCHANGED uiVars
    \/ Idle /\ \E reply \in Replies : Analyze(reply) /\ UNCHANGED uiVars
    \/ Idle /\ \E insight \in SavedInsights : SaveInsight(insight) /\ UNCHANGED uiVars
    \/ GetRecentInsights /\ UNCHANGED uiVars
    \/ Close /\ UNCHANGED uiVars
    \/ Tick /\ UNCHANGED uiVars

SpecAI == InitAI /\ [][NextAI]_vars

(* ---------- C13, C14: analytics ---------- *)

\* the ids of the tasks created on a date
CreatedOn(date) == {i \in DOMAIN tasks : tasks[i].created_at[2] \div TicksPerDay = date[2]}

DoneOn(date) == {i \in CreatedOn(date) : tasks[i].status = Str("done")}

\* C13: the daily statistics of a date d (today when none is asked for) count
\* the tasks created on d as total_tasks and those of them with status done as
\* completed_tasks, so 0 <= completed_tasks <= total_tasks; completion_rate is
\* completed_tasks / total_tasks * 100, within 0..100; with no task created on d
\* the answer is {d, 0, 0, 0}.
DailyStatsCountByDate ==
    req.op = "daily" =>
        LET date == IF req.date \in {Undefined, Str("")} THEN Today ELSE req.date
            total == IF date[1] = "date" THEN Cardinality(CreatedOn(date)) ELSE 0
            completed == IF date[1] = "date" THEN Cardinality(DoneOn(date)) ELSE 0
            rate == res.body.completion_rate
        IN  /\ res.code = 200
            /\ res.body.date = date
            /\ res.body.total_tasks = total
            /\ res.body.completed_tasks = completed
            /\ 0 <= res.body.completed_tasks
            /\ res.body.completed_tasks <= res.body.total_tasks
            /\ total = 0 => rate = Num(0)
            /\ total > 0 =>
                  /\ rate[1] = "real" /\ rate[3] > 0
                  /\ rate[2] * total = completed * 100 * rate[3]
                  /\ 0 <= rate[2] /\ rate[2] <= 100 * rate[3]

DailyStatsCountByDateWitness ==
    /\ req.op = "daily" /\ req.date = Day(0)
    /\ Today = Day(1)
    /\ Cardinality(DOMAIN tasks) = 2
    /\ res.body.total_tasks = 1 /\ res.body.completed_tasks = 1

\* C14: the weekly statistics hold exactly one row for every date from seven
\* days before today on that has a task, no row for any other date, and the
\* rows run from the newest date to the oldest.
WeeklyStatsWindowNewestFirst ==
    req.op = "weekly" =>
        LET rows == res.body
            window == {d \in (Today[2] - WeekDays)..Today[2] : CreatedOn(Day(d)) # {}}
        IN  /\ res.code = 200
            /\ \A k \in DOMAIN rows :
                  /\ rows[k].date[1] = "date"
                  /\ rows[k].date[2] \in window
                  /\ rows[k].total_tasks = Cardinality(CreatedOn(rows[k].date))
                  /\ rows[k].total_tasks >= 1
                  /\ rows[k].completed_tasks = Cardinality(DoneOn(rows[k].date))
            /\ \A d \in window : \E k \in DOMAIN rows : rows[k].date = Day(d)
            /\ \A j, k \in DOMAIN rows : j < k => rows[j].date[2] > rows[k].date[2]
            /\ Len(rows) = Cardinality(window)

WeeklyStatsWindowNewestFirstWitness ==
    /\ req.op = "weekly"
    /\ Today = Day(MaxDays)
    /\ Cardinality(DOMAIN tasks) = 2
    /\ \E i \in DOMAIN tasks : tasks[i].created_at[2] \div TicksPerDay < MaxDays - WeekDays
    /\ Len(res.body) = 1 /\ res.body[1].date = Day(MaxDays - 1)

(* ---------- C15 .. C20: the insight generator ---------- *)

\* C15: analyze on an empty task list answers the four fixed lists (one
\* placeholder pattern, one placeholder completion insight, no failure reason,
\* one placeholder recommendation) and sends no request to the chat-completion
\* API, with or without a key.
AnalyzeEmptyListPlaceholders ==
    [][(Idle /\ req'.op = "analyze" /\ DOMAIN tasks = {}) =>
          /\ res'.code = 200
          /\ res'.body.patterns = Arr(<<Line("No tasks to analyze yet", << >>)>>)
          /\ res'.body.completionInsights =
                 Arr(<<Line("Start adding tasks to get insights", << >>)>>)
          /\ res'.body.failureReasons = Arr(<< >>)
          /\ res'.body.recommendations =
                 Arr(<<Line("Create your first task to begin tracking your productivity",
                            << >>)>>)
          /\ calls' = calls]_vars

AnalyzeEmptyListPlaceholdersWitness ==
    /\ req.op = "analyze" /\ req.list = << >>
    /\ groqApiKey # ""
    /\ res.code = 200 /\ calls = 0
    /\ Len(insights) = 3

\* the replies whose text holds one parseable JSON object between its first {
\* and its last }
Parseable ==
    {Ok(Arr(<<Text(<<Prose, Obj(o), Prose>>)>>)) : o \in Spelled}
    \cup {Ok(Arr(<<Text(<<Prose, Open, Shut>>)>>))}

\* C16: for a non-empty task list, without a key (and then without a request
\* sent) or with a reply that fails (the request rejected, a status that is not
\* ok, no JSON object in the reply, JSON that does not parse), analyze
\* answers the result of basicAnalysis on those tasks and not an error.
AnalyzeFallsBackToBasic ==
    [][(/\ Idle /\ req'.op = "analyze" /\ req'.list # << >>
        /\ groqApiKey = "" \/ req'.reply \notin Parseable) =>
          /\ res'.code = 200
          /\ res'.body = BasicAnalysis(req'.list)
          /\ groqApiKey = "" => calls' = calls]_vars

AnalyzeFallsBackToBasicWitness ==
    /\ req.op = "analyze" /\ Len(req.list) = 2
    /\ groqApiKey # "" /\ calls = 1
    /\ req.reply = Ok(Arr(<<Text(<<Open, Prose, Shut>>)>>))
    /\ res.code = 200

ListOfStrings(v) == IsArray(v) /\ \A k \in DOMAIN v[2] : IsStr(v[2][k])

\* C17: whatever the task list and the reply, GET /api/ai/analyze answers no
\* error, and its answer has four fields that are all lists of strings.
AnalyzeNeverFails ==
    req.op = "analyze" =>
        /\ res.code = 200
        /\ ListOfStrings(res.body.patterns)
        /\ ListOfStrings(res.body.completionInsights)
        /\ ListOfStrings(res.body.failureReasons)
        /\ ListOfStrings(res.body.recommendations)

\* the strings of one field of an answer with the insight_type they are saved as
Typed(field, type) == [k \in DOMAIN field[2] |-> [insight_type |-> Str(type), content |-> field[2][k]]]

\* C18: a GET /api/ai/analyze that succeeds appends one insight per string of
\* its answer, with the string as content and the type of its field, in the
\* order patterns, completion insights, failure reasons, recommendations, and
\* leaves the insights stored before as they were.
AnalyzeSavesEveryString ==
    [][(Idle /\ req'.op = "analyze" /\ res'.code = 200) =>
          LET strings == Typed(res'.body.patterns, "pattern")
                         \o Typed(res'.body.completionInsights, "completion")
                         \o Typed(res'.body.failureReasons, "failure")
                         \o Typed(res'.body.recommendations, "recommendation")
              n == Len(insights)
          IN  /\ Len(insights') = n + Len(strings)
              /\ SubSeq(insights', 1, n) = insights
              /\ \A k \in DOMAIN strings :
                    /\ insights'[n + k].insight_type = strings[k].insight_type
                    /\ insights'[n + k].content = strings[k].content]_vars

AnalyzeSavesEveryStringWitness ==
    /\ req.op = "analyze" /\ res.code = 200
    /\ Len(req.list) = 1
    /\ Len(res.body.failureReasons[2]) = 2
    /\ Len(insights) = 14

\* C19: saveInsight stores 0.8 as confidence_score when the insight has none,
\* and the score of the insight when it has one, 0.0 included.
SaveInsightKeepsConfidence ==
    [][(Idle /\ req'.op = "save") =>
          /\ Len(insights') = Len(insights) + 1
          /\ insights'[Len(insights')].confidence_score =
                 IF req'.insight.confidence_score = Undefined
                 THEN Num(8)
                 ELSE req'.insight.confidence_score]_vars

MaxEach == 2

\* a row of the tasks table as basicAnalysis reads it
TaskRow(id, status, priority) ==
    [ id |-> id, title |-> Str("a"), description |-> Null, status |-> status,
      priority |-> priority, created_at |-> Time(0), completed_at |-> Null,
      position |-> Num(0) ]

RECURSIVE Runs(_, _)
\* the list made of runs <<n, status, priority>> of n rows each, ids counting
\* on from a given one
Runs(runs, from) ==
    IF runs = << >> THEN << >>
    ELSE [k \in 1..Head(runs)[1] |-> TaskRow(from + k, Head(runs)[2], Head(runs)[3])]
         \o Runs(Tail(runs), from + Head(runs)[1])

Cells == << <<Str("done"), Str("high")>>, <<Str("done"), Str("medium")>>,
            <<Str("done"), Str("low")>>, <<Str("todo"), Str("high")>>,
            <<Str("todo"), Str("medium")>>, <<Str("todo"), Str("low")>> >>

\* short lists: up to MaxEach tasks of every status and priority of Cells
ShortRuns ==
    {[k \in DOMAIN Cells |-> <<c[k], Cells[k][1], Cells[k][2]>>] :
        c \in [DOMAIN Cells -> 0..MaxEach]}

\* long lists, around the thresholds of the recommendations, and lists with
\* statuses and priorities that Cells leaves out
LongRuns ==
    { << <<50, Str("done"), Str("medium")>>, <<51, Str("todo"), Str("medium")>> >>,
      << <<49, Str("done"), Str("low")>>, <<51, Str("todo"), Str("low")>> >>,
      << <<11, Str("todo"), Str("low")>> >>,
      << <<11, Str("in-progress"), Str("high")>>, <<12, Str("done"), Str("medium")>> >>,
      << <<10, Str("todo"), Str("low")>>, <<1, Str("done"), Str("high")>> >>,
      << <<2, Str("in-progress"), Str("high")>>, <<1, Str("archived"), Str("urgent")>>,
         <<1, Str("done"), Null>> >> }

\* the lists basicAnalysis is called with: analyzeTasks never passes an empty one
TaskLists == {Runs(r, 0) : r \in ShortRuns \cup LongRuns} \ {<< >>}

\* the same tasks in another order, with other titles and descriptions, or
\* with other ids, timestamps and positions
Rearranged(list, how) ==
    [k \in DOMAIN list |->
        LET t == list[k]
        IN  CASE how = "order" -> list[Len(list) + 1 - k]
              [] how = "text" ->
                    [t EXCEPT !.title = IF @ = Str("a") THEN Str("b") ELSE Str("a"),
                              !.description = IF @ = Null THEN Str("d") ELSE Null]
              [] how = "stamps" ->
                    [t EXCEPT !.id = IF @ > 1000 THEN @ - 1000 ELSE @ + 1000,
                              !.created_at = IF @ = Time(0) THEN Time(1) ELSE Time(0),
                              !.completed_at = IF @ = Null THEN Time(1) ELSE Null,
                              !.position = IF @ = Num(0) THEN Num(1) ELSE Num(0)]]

\* a call of basicAnalysis
CallBasicAnalysis(list) ==
    /\ Idle
    /\ req' = [op |-> "basicAnalysis", list |-> list]
    /\ res' = [code |-> 0, body |-> BasicAnalysis(list)]
    /\ UNCHANGED <<tasks, seq, now, ops, aiVars>>

\* the next call, with the same tasks rearranged
CallBasicAnalysisAgain(how) ==
    /\ req.op = "basicAnalysis"
    /\ req' = [req EXCEPT !.list = Rearranged(req.list, how)]
    /\ res' = [code |-> 0, body |-> BasicAnalysis(Rearranged(req.list, how))]
    /\ UNCHANGED <<tasks, seq, now, ops, aiVars>>

NextBasic ==
    \/ Idle /\ \E list \in TaskLists : CallBasicAnalysis(list) /\ UNCHANGED uiVars
    \/ \E how \in {"order", "text", "stamps"} : CallBasicAnalysisAgain(how) /\ UNCHANGED uiVars
    \/ Close /\ UNCHANGED uiVars

SpecBasic == Init /\ [][NextBasic]_vars

(* ---------- C22 .. C27: basicAnalysis ---------- *)

\* the number of tasks of a list with a status among S, and of those the ones
\* with priority high
Completed(list) == Cardinality({k \in DOMAIN list : list[k].status = Str("done")})
Incomplete(list) == Cardinality({k \in DOMAIN list : list[k].status # Str("done")})
HighCompleted(list) ==
    Cardinality({k \in DOMAIN list :
                    list[k].status = Str("done") /\ list[k].priority = Str("high")})
HighIncomplete(list) ==
    Cardinality({k \in DOMAIN list :
                    list[k].status # Str("done") /\ list[k].priority = Str("high")})

\* a list of lines holds a line of a template
HasLine(lines, template) == \E k \in DOMAIN lines : lines[k][2] = template

FinishFirst == "Focus on completing existing tasks before adding new ones"
PrioritizeHigh == "Prioritize high-priority tasks first for better productivity"
ArchiveOld == "Consider archiving or deleting tasks that are no longer relevant"
GreatJob == "Great job managing your task list! Keep up the momentum"

\* C22: the recommendations hold the finish-before-adding line exactly when
\* completed / total * 100 is below 50 and there are more than 3 tasks, and the
\* prioritize line exactly when an incomplete task has priority high.
RecommendationsFollowRate ==
    req.op = "basicAnalysis" =>
        LET list == req.list
            lines == res.body.recommendations[2]
        IN  /\ HasLine(lines, FinishFirst) <=>
                  (Completed(list) * 100 < 50 * Len(list) /\ Len(list) > 3)
            /\ HasLine(lines, PrioritizeHigh) <=> HighIncomplete(list) > 0

\* C23: for a non-empty list the recommendations have one to three lines, and
\* among them the archive line when more than 10 tasks are incomplete and the
\* encouragement otherwise, never both, never neither.
RecommendationsArchiveOrEncourage ==
    req.op = "basicAnalysis" =>
        LET list == req.list
            lines == res.body.recommendations[2]
        IN  /\ Len(lines) >= 1 /\ Len(lines) <= 3
            /\ HasLine(lines, ArchiveOld) <=> Incomplete(list) > 10
            /\ HasLine(lines, GreatJob) <=> ~(Incomplete(list) > 10)
            /\ Cardinality({k \in DOMAIN lines : lines[k][2] \in {ArchiveOld, GreatJob}}) = 1

RecommendationsArchiveOrEncourageWitness ==
    /\ req.op = "basicAnalysis"
    /\ Incomplete(req.list) = 11
    /\ HasLine(res.body.recommendations[2], ArchiveOld)
    /\ Len(res.body.recommendations[2]) = 2

\* C24: with no task completed the completion insights are the one fixed
\* encouragement; with a task completed they are the rate line, the rate
\* rounded to a whole percent, followed by the count of completed tasks of
\* priority high exactly when that count is above 0.
CompletionInsightsByCompleted ==
    req.op = "basicAnalysis" =>
        LET list == req.list
            lines == res.body.completionInsights[2]
            rate == lines[1][3][1]
        IN  /\ Completed(list) = 0 =>
                  lines = <<Line("No tasks completed yet - start checking items off your list!",
                                 << >>)>>
            /\ Completed(list) > 0 =>
                  /\ lines[1][2] = "You have a %% completion rate"
                  /\ 2 * rate * Len(list) - 200 * Completed(list) <= Len(list)
                  /\ 200 * Completed(list) - 2 * rate * Len(list) <= Len(list)
                  /\ HighCompleted(list) = 0 => Len(lines) = 1
                  /\ HighCompleted(list) > 0 =>
                        /\ Len(lines) = 2
                        /\ lines[2] = Line("You've completed % high-priority tasks",
                                           <<HighCompleted(list)>>)

CompletionInsightsByCompletedWitness ==
    /\ req.op = "basicAnalysis"
    /\ Completed(req.list) = 3 /\ HighCompleted(req.list) = 2 /\ Len(req.list) = 7
    /\ Len(res.body.completionInsights[2]) = 2
    /\ res.body.completionInsights[2][1] = Line("You have a %% completion rate", <<43>>)

\* C25: the failure reasons are empty when no task is incomplete; otherwise
\* they are the count of incomplete tasks of priority high exactly when it is
\* above 0, then the more-incomplete note exactly when the incomplete tasks
\* outnumber the completed ones, and nothing else.
FailureReasonsByIncomplete ==
    req.op = "basicAnalysis" =>
        LET list == req.list
            lines == res.body.failureReasons[2]
            stillPending == Line("% high-priority tasks are still pending", <<HighIncomplete(list)>>)
            more == Line("More incomplete tasks than completed - consider breaking down large tasks",
                         << >>)
        IN  /\ Incomplete(list) = 0 => lines = << >>
            /\ Incomplete(list) > 0 =>
                  /\ (\E k \in DOMAIN lines : lines[k] = stillPending) <=> HighIncomplete(list) > 0
                  /\ (\E k \in DOMAIN lines : lines[k] = more) <=>
                         Incomplete(list) > Completed(list)
                  /\ \A k \in DOMAIN lines : lines[k] \in {stillPending, more}
                  /\ Len(lines) <= 2
                  /\ Len(lines) = 2 => lines[1] # lines[2]

FailureReasonsByIncompleteWitness ==
    /\ req.op = "basicAnalysis"
    /\ Incomplete(req.list) = 11 /\ Completed(req.list) = 12
    /\ res.body.failureReasons[2] = <<Line("% high-priority tasks are still pending", <<11>>)>>

\* the number of tasks of a priority
Count(list, p) == Cardinality({k \in DOMAIN list : list[k].priority = Str(p)})

\* C26: the priority reported as most common has the largest count among high,
\* medium and low, and of several with the largest count it is the first in
\* the order high, medium, low.
MostCommonFirstOfLargest ==
    req.op = "basicAnalysis" =>
        LET list == req.list
            line == res.body.patterns[2][2]
            p == line[3][1]
            order == <<"high", "medium", "low">>
        IN  /\ line[2] = "Most tasks are % priority (% tasks)"
            /\ \E k \in DOMAIN order :
                  /\ order[k] = p
                  /\ line[3][2] = Count(list, p)
                  /\ \A j \in DOMAIN order : Count(list, order[j]) <= Count(list, p)
                  /\ \A j \in 1..(k - 1) : Count(list, order[j]) < Count(list, p)

MostCommonFirstOfLargestWitness ==
    /\ req.op = "basicAnalysis"
    /\ Count(req.list, "high") = 1
    /\ Count(req.list, "medium") = 3 /\ Count(req.list, "low") = 3
    /\ res.body.patterns[2][2][3] = <<"medium", 3>>

\* two lists have as many tasks of every status and priority
SameCounts(a, b) ==
    /\ Len(a) = Len(b)
    /\ \A k \in DOMAIN a :
          Cardinality({j \in DOMAIN a : a[j].status = a[k].status
                                        /\ a[j].priority = a[k].priority})
          = Cardinality({j \in DOMAIN b : b[j].status = a[k].status
                                          /\ b[j].priority = a[k].priority})

\* C27: two calls of basicAnalysis on lists with as many tasks of every status
\* and priority give the same result, whatever the order of the tasks and
\* their other fields.
BasicAnalysisOfCountsOnly ==
    [][(/\ req.op = "basicAnalysis" /\ req'.op = "basicAnalysis"
        /\ SameCounts(req.list, req'.list)) => res'.body = res.body]_vars

BasicAnalysisOfCountsOnlyWitness ==
    /\ req.op = "basicAnalysis"
    /\ Len(req.list) = 4
    /\ req.list[1].id > req.list[2].id
    /\ req.list[1].title = Str("b")
    /\ req.list[1].completed_at # Null
    /\ req.list[1].status = Str("todo") /\ req.list[4].status = Str("done")

(* ---------- App.tsx and api.ts: the reference UI ---------- *)

\* the number of handlers of the component that can wait for a fetch at once
MaxPending == 2

\* no handler waits in a slot
NoCall == [op |-> "none", closure |-> << >>, id |-> 0, body |-> NoBody,
           stage |-> "none", res |-> NoRes]

\* a handler that has called fetch: the tasks state its closure holds, the
\* task it is about, the body it sent
Call(op, id, body) ==
    [op |-> op, closure |-> local, id |-> id, body |-> body, stage |-> "sent",
     res |-> NoRes]

Slots == 1..MaxPending

\* a handler that starts takes the first slot where none waits; the browser
\* runs a handler between two requests of the server
Free(i) ==
    /\ Idle
    /\ pending[i] = NoCall
    /\ \A j \in 1..(i - 1) : pending[j] # NoCall

\* a task of the list (an element with an id), as opposed to an error object
IsTask(e) == "id" \in DOMAIN e

\* the ids of the tasks that the three columns show
Shown ==
    {local[k].id : k \in {j \in DOMAIN local :
        IsTask(local[j]) /\ local[j].status \in TaskStatuses}}

\* what TaskForm submits: a trimmed title that is not empty, no description
\* when it is empty, position 0
AddBodies ==
    {[title |-> Str("a"), description |-> Undefined, status |-> Str("todo"),
      priority |-> Str("medium"), position |-> Num(0)],
     [title |-> Str("a"), description |-> Undefined, status |-> Str("done"),
      priority |-> Str("high"), position |-> Num(0)]}

\* what TaskItem sends: handleStatusChange, handleSave
ItemUpdates ==
    {[NoBody EXCEPT !.status = Str("done")],
     [NoBody EXCEPT !.title = Str("b"), !.description = Str("d")]}

\* useEffect(() => { loadTasks() }, []) and loadTasks() after a failed reorder
LoadCall == [Call("load", 0, NoBody) EXCEPT !.closure = << >>]

\* handleAddTask up to its await
StartAdd(i, body) ==
    /\ ~loading
    /\ Free(i)
    /\ pending' = [pending EXCEPT ![i] = Call("add", 0, body)]
    /\ UNCHANGED <<tasks, seq, now, req, res, ops, aiVars, local, loading, history>>

\* handleUpdateTask up to its await
StartUpdate(i, id, updates) ==
    /\ ~loading
    /\ Free(i)
    /\ id \in Shown
    /\ pending' = [pending EXCEPT ![i] = Call("update", id, updates)]
    /\ UNCHANGED <<tasks, seq, now, req, res, ops, aiVars, local, loading, history>>

\* handleDeleteTask up to its await
StartDelete(i, id) ==
    /\ ~loading
    /\ Free(i)
    /\ id \in Shown
    /\ pending' = [pending EXCEPT ![i] = Call("delete", id, NoBody)]
    /\ UNCHANGED <<tasks, seq, now, req, res, ops, aiVars, local, loading, history>>

\* arrayMove of @dnd-kit/sortable
ArrayMove(list, from, to) ==
    LET without == SubSeq(list, 1, from - 1) \o SubSeq(list, from + 1, Len(list))
    IN  SubSeq(without, 1, to - 1) \o <<list[from]>> \o SubSeq(without, to, Len(without))

\* tasks.findIndex(t => t.id === id), counted from 1
FindIndex(list, id) ==
    CHOOSE k \in DOMAIN list :
        /\ IsTask(list[k]) /\ list[k].id = id
        /\ \A j \in 1..(k - 1) : ~(IsTask(list[j]) /\ list[j].id = id)

\* handleDragEnd up to its await: the list is rearranged at once; an element
\* without an id is sent without one and names no row (0 here)
StartDrag(i, active, over) ==
    /\ ~loading
    /\ Free(i)
    /\ active \in Shown /\ over \in Shown /\ active # over
    /\ LET newTasks == ArrayMove(local, FindIndex(local, active), FindIndex(local, over))
           updates == [k \in DOMAIN newTasks |->
                          [id |-> IF IsTask(newTasks[k]) THEN newTasks[k].id ELSE 0,
                           position |-> Num(k - 1)]]
       IN  /\ local' = newTasks
           /\ pending' = [pending EXCEPT
                  ![i] = [Call("reorder", 0, [tasks |-> Arr(updates)])
                             EXCEPT !.closure = local]]
    /\ history' = history \cup {"reorder"}
    /\ UNCHANGED <<tasks, seq, now, req, res, ops, aiVars, loading>>

\* the request of a handler reaches the server
Sent(i, op) == pending[i].op = op /\ pending[i].stage = "sent"

\* the response of the server reaches the browser: fetch resolves, whatever
\* the status
Answered(i) ==
    /\ pending' = [pending EXCEPT ![i].stage = "answered", ![i].res = res']
    /\ UNCHANGED <<local, loading, history>>

\* the catch of a route handler: the store threw, nothing was written
StoreError(i) ==
    /\ Idle
    /\ ops < MaxOps
    /\ ops' = ops + 1
    /\ pending[i].stage = "sent"
    /\ pending[i].op # "load"
    /\ req' = [op |-> pending[i].op, body |-> pending[i].body]
    /\ res' = [code |-> 500]
    /\ Answered(i)
    /\ UNCHANGED <<tasks, seq, now, aiVars>>

\* the request does not reach the server: fetch rejects (a request that is
\* lost counts among the requests, as one that is served does)
FetchRejects(i) ==
    /\ Idle
    /\ ops < MaxOps
    /\ ops' = ops + 1
    /\ pending[i].stage = "sent"
    /\ pending' = [pending EXCEPT ![i].stage = "rejected"]
    /\ UNCHANGED <<tasks, seq, now, req, res, aiVars, local, loading, history>>

\* res.json() of a response: the row or rows of a success, the error object
\* { error: ... } of an error status
ResJson(r) == IF r.code \in {200, 201} THEN r.body ELSE [error |-> "message"]

\* how the request of a handler ended
Outcome(c) ==
    IF c.stage = "rejected" THEN "rejected"
    ELSE IF c.res.code \in {200, 201} THEN "ok" ELSE "error"

\* the tasks state after the rest of a handler has run: api.* never looks at
\* the status, so only a rejected fetch reaches the catch
SetTasks(c) ==
    IF c.stage = "rejected" THEN local
    ELSE CASE c.op = "add" -> <<ResJson(c.res)>> \o c.closure
           [] c.op = "update" ->
                 [k \in DOMAIN c.closure |->
                     IF IsTask(c.closure[k]) /\ c.closure[k].id = c.id
                     THEN ResJson(c.res) ELSE c.closure[k]]
           [] c.op = "delete" ->
                 SelectSeq(c.closure, LAMBDA t : ~(IsTask(t) /\ t.id = c.id))
           [] c.op = "load" -> ResJson(c.res)
           [] c.op = "reorder" -> local

\* the rest of a handler, after its await
Complete(i) ==
    LET c == pending[i]
    IN  /\ Idle
        /\ c.stage \in {"answered", "rejected"}
        /\ local' = SetTasks(c)
        /\ loading' = IF c.op = "load" THEN FALSE ELSE loading
        /\ pending' = [pending EXCEPT
               ![i] = IF c.op = "reorder" /\ c.stage = "rejected" THEN LoadCall ELSE NoCall]
        /\ history' = history \cup (IF Outcome(c) = "ok" THEN {} ELSE {"failed"})
        /\ UNCHANGED <<tasks, seq, now, req, res, ops, aiVars>>

\* the component mounts on a server without tasks and loads its list
InitUI ==
    /\ tasks = NoRows
    /\ seq = 0
    /\ now = 0
    /\ req = NoReq
    /\ res = NoRes
    /\ ops = 0
    /\ insights = << >>
    /\ calls = 0
    /\ groqApiKey = ""
    /\ local = << >>
    /\ pending = [i \in Slots |-> IF i = 1 THEN LoadCall ELSE NoCall]
    /\ loading = TRUE
    /\ history = {}

NextUI ==
    \/ \E i \in Slots, body \in AddBodies : StartAdd(i, body)
    \/ \E i \in Slots, id \in Ids, updates \in ItemUpdates : StartUpdate(i, id, updates)
    \/ \E i \in Slots, id \in Ids : StartDelete(i, id)
    \/ \E i \in Slots, active \in Ids, over \in Ids : StartDrag(i, active, over)
    \/ \E i \in Slots : Sent(i, "add") /\ CreateTask(pending[i].body) /\ Answered(i)
    \/ \E i \in Slots : Sent(i, "update") /\ UpdateTask(pending[i].id, pending[i].body)
                                          /\ Answered(i)
    \/ \E i \in Slots : Sent(i, "delete") /\ DeleteTask(pending[i].id) /\ Answered(i)
    \/ \E i \in Slots : Sent(i, "reorder") /\ ReorderTasks(pending[i].body) /\ Answered(i)
    \/ \E i \in Slots : Sent(i, "load") /\ ListTasks /\ Answered(i)
    \/ \E i \in Slots : StoreError(i)
    \/ \E i \in Slots : FetchRejects(i)
    \/ \E i \in Slots : Complete(i)
    \/ Close /\ UNCHANGED uiVars

SpecUI == InitUI /\ [][NextUI]_vars

(* ---------- C21, C29, C30: the reference UI ---------- *)

\* the handler in a slot runs its rest in this step
Resumes(i) ==
    /\ pending[i].stage \in {"answered", "rejected"}
    /\ pending'[i] # pending[i]

ErrorStatus(c) == c.stage = "answered" /\ c.res.code \in {400, 404, 500}

\* C21: when a reorder request of the UI fails, by a fetch that rejects or by
\* an error status of the server, the UI loads the task list again.
ReorderFailureReloads ==
    [][\A i \in DOMAIN pending :
          (/\ pending[i].op = "reorder"
           /\ pending[i].stage = "rejected" \/ ErrorStatus(pending[i])
           /\ Resumes(i)) => pending'[i].op = "load"]_vars

\* C29: once no handler of the UI waits and every request of its create, update
\* and delete handlers has succeeded, the list of the UI holds the tasks of the
\* store, with the same fields.
UIListMatchesStore ==
    (/\ ~loading
     /\ \A i \in DOMAIN pending : pending[i] = NoCall
     /\ history = {}) =>
        /\ Len(local) = Cardinality(DOMAIN tasks)
        /\ {local[k] : k \in DOMAIN local} = Rows(tasks)

\* C30: when the server answers a create, update or delete request of the UI
\* with an error status, the handler leaves the list of the UI as it is, and
\* every element of the list is a task.
UIListKeptOnErrorStatus ==
    [][\A i \in DOMAIN pending :
          (/\ pending[i].op \in {"add", "update", "delete"}
           /\ ErrorStatus(pending[i])
           /\ Resumes(i)) =>
              /\ local' = local
              /\ \A k \in DOMAIN local' : IsTask(local'[k])]_vars

====
